---- MODULE Spec2Model ----
(***************************************************************************)
(* Model of resources/lib/itemtypes/common.py: the ItemBase session       *)
(* (__init__, __enter__, __exit__, commit) and its update operations      *)
(* (set_fanart, update_userdata, update_playstate).                        *)
(*                                                                         *)
(* Every method of ItemBase is one action.  Collaborators (the three       *)
(* sqlite connections, PlexDB, KodiVideoDB) are modelled at their call     *)
(* boundary: a call either returns or raises, and the set of calls that    *)
(* would raise when attempted is an input of the action.                   *)
(***************************************************************************)
EXTENDS Integers, Sequences, FiniteSets, TLC

\* ------------------------------------------------------------------ bounds
MaxViewCount == 2   \* integer view counts offered as input: -1..MaxViewCount
MaxWork == 2        \* update/commit calls made inside one session
MaxFaults == 1      \* collaborator calls that would raise in one invocation

\* ------------------------------------------------------- python values
\* A python value as far as "view_count += 1" can tell values apart.
\* v is the integer for an int, twice the number for a float, 0 otherwise.
PyNone == [t |-> "None", v |-> 0]
PyInt(n) == [t |-> "int", v |-> n]
PyFloat(twice) == [t |-> "float", v |-> twice]
PyStr == [t |-> "str", v |-> 0]
KodiDate(ts) == [t |-> "kodidate", v |-> ts]

\* utils.unix_date_to_kodi: the unix timestamp rendered as a Kodi date string
unix_date_to_kodi(lastViewedAt) == KodiDate(lastViewedAt.v)

\* ------------------------------------------------------------- errors
NoError == [kind |-> "none", op |-> "", conn |-> ""]
AttributeError == [kind |-> "AttributeError", op |-> "", conn |-> ""]
\* the error raised by collaborator call op on connection/collaborator conn
Raised(op, conn) == [kind |-> "Error", op |-> op, conn |-> conn]

\* ------------------------------------------------------ identity store
PlexTypes == {"movie", "show"}
\* plex ids offered as input
PlexIds == {1}
Keys == PlexIds \X PlexTypes
NotFound == [kodi_fileid |-> 0, kodi_id |-> 0, kodi_type |-> "None"]
KodiType(plex_type) == IF plex_type = "show" THEN "tvshow" ELSE plex_type
\* the row the item-creation workflow stores for a synced item
Row(plex_id, plex_type) ==
    [kodi_fileid |-> (IF plex_type = "show" THEN 60 ELSE 50) + plex_id,
     kodi_id |-> (IF plex_type = "show" THEN 80 ELSE 70) + plex_id,
     kodi_type |-> KodiType(plex_type)]
\* PlexDB.item_by_id: the stored row, or None
item_by_id(rows, plex_id, plex_type) == rows[<<plex_id, plex_type>>]


\* --------------------------------------------------- collaborator calls
\* KodiVideoDB.set_resume(file_id, resume, runtime, playcount, dateplayed,
\* plex_type), as it is called
SetResume(kodi_fileid, resume, runtime, playcount, dateplayed, plex_type) ==
    <<"set_resume", kodi_fileid, resume, runtime, playcount, dateplayed,
      plex_type>>
\* KodiVideoDB.update_userrating(kodi_id, kodi_type, userrating), as called
UpdateUserrating(kodi_id, kodi_type, userrating) ==
    <<"update_userrating", kodi_id, kodi_type, userrating>>
\* KodiVideoDB.modify_artwork(artworks, kodi_id, kodi_type), as called
ModifyArtwork(artworks, kodi_id, kodi_type) ==
    <<"modify_artwork", artworks, kodi_id, kodi_type>>
\* PlexDB.item_by_id(plex_id, plex_type), as called
ItemById(plex_id, plex_type) == <<"item_by_id", plex_id, plex_type>>

WriterFns == {"set_resume", "update_userrating", "modify_artwork"}
IsWriterCall(call) == call[1] \in WriterFns
WriterCalls(calls) == SelectSeq(calls, IsWriterCall)

\* --------------------------------------------------- sequential execution
\* Python runs the statements of a method in order and leaves the method at
\* the first call that raises.  plan is the sequence of calls the method
\* would make, faulty the set of step names that raise when attempted.
FirstFault(names, faulty) ==
    IF \E i \in 1..Len(names) : names[i] \in faulty
    THEN CHOOSE i \in 1..Len(names) :
             /\ names[i] \in faulty
             /\ \A j \in 1..(i - 1) : names[j] \notin faulty
    ELSE 0
\* the steps that are attempted: all of them, or those up to the one raising
Attempted(plan, names, faulty) ==
    IF FirstFault(names, faulty) = 0 THEN plan
    ELSE SubSeq(plan, 1, FirstFault(names, faulty))
FaultSets(names) ==
    {f \in SUBSET {names[i] : i \in 1..Len(names)} : Cardinality(f) <= MaxFaults}

\* ------------------------------------------------------ update_userdata
\* api.userdata() results offered as input
UserDatas ==
    { [Resume |-> 300, Runtime |-> 7200, PlayCount |-> PyInt(2),
       LastPlayedDate |-> KodiDate(1), UserRating |-> PyInt(8)],
      [Resume |-> 0, Runtime |-> 5400, PlayCount |-> PyNone,
       LastPlayedDate |-> PyNone, UserRating |-> PyInt(0)],
      [Resume |-> 0, Runtime |-> 7200, PlayCount |-> PyInt(1),
       LastPlayedDate |-> KodiDate(2), UserRating |-> PyInt(10)] }

\* userdata_calls with the two writes in the other order
userdata_calls_rating_first(db_item, userdata, plex_type) ==
    << UpdateUserrating(db_item.kodi_id, db_item.kodi_type,
                        userdata.UserRating),
       SetResume(db_item.kodi_fileid, userdata.Resume, userdata.Runtime,
                 userdata.PlayCount, userdata.LastPlayedDate, plex_type) >>

\* the two writes of update_userdata for a resolved db_item
userdata_calls(db_item, userdata, plex_type) ==
    << SetResume(db_item.kodi_fileid, userdata.Resume, userdata.Runtime,
                 userdata.PlayCount, userdata.LastPlayedDate, plex_type),
       UpdateUserrating(db_item.kodi_id, db_item.kodi_type,
                        userdata.UserRating) >>

\* update_userdata_plan without the "if not db_item: return"
update_userdata_plan_unchecked(db_item, userdata, plex_type) ==
    << SetResume(db_item.kodi_fileid, userdata.Resume, userdata.Runtime,
                 userdata.PlayCount, userdata.LastPlayedDate, plex_type),
       UpdateUserrating(db_item.kodi_id, db_item.kodi_type,
                        userdata.UserRating) >>

\* the writes update_userdata goes on to make once item_by_id has returned
update_userdata_plan(db_item, userdata, plex_type) ==
    IF db_item = NotFound THEN << >>
    ELSE userdata_calls(db_item, userdata, plex_type)

\* ----------------------------------------------------- update_playstate
\* "view_count += 1" raises TypeError for None and for a string
CanAddOne(view_count) == view_count.t \in {"int", "float"}
\* AddOne that leaves the count as it is
AddOne_forgotten(view_count) == view_count

AddOne(view_count) ==
    IF view_count.t = "float" THEN PyFloat(view_count.v + 2)
    ELSE PyInt(view_count.v + 1)

\* playstate_view_count without the "except TypeError" branch's value
playstate_view_count_no_fallback(mark_played, view_count) ==
    IF mark_played
    THEN IF CanAddOne(view_count) THEN AddOne(view_count) ELSE view_count
    ELSE view_count

\* playstate_view_count that sets 1 whenever the item is marked played
playstate_view_count_always_one(mark_played, view_count) ==
    IF mark_played THEN PyInt(1) ELSE view_count

\* playstate_view_count that increments whether or not mark_played is set
playstate_view_count_unguarded(mark_played, view_count) ==
    IF CanAddOne(view_count) THEN AddOne(view_count) ELSE PyInt(1)

\* playstate_view_count whose "except TypeError" branch sets 0
playstate_view_count_fallback_zero(mark_played, view_count) ==
    IF mark_played
    THEN IF CanAddOne(view_count) THEN AddOne(view_count) ELSE PyInt(0)
    ELSE view_count

playstate_view_count(mark_played, view_count) ==
    IF mark_played
    THEN IF CanAddOne(view_count) THEN AddOne(view_count) ELSE PyInt(1)
    ELSE view_count

\* playstate_resume without the "resume = 0"
playstate_resume_kept(mark_played, resume) == resume

playstate_resume(mark_played, resume) == IF mark_played THEN 0 ELSE resume

playstate_call(mark_played, view_count, resume, duration, kodi_fileid, lastViewedAt, plex_type) ==
    SetResume(kodi_fileid, playstate_resume(mark_played, resume), duration,
              playstate_view_count(mark_played, view_count),
              unix_date_to_kodi(lastViewedAt), plex_type)

\* view_count values offered as input: absent, a string, 1.5, and integers
ViewCounts ==
    {PyNone, PyStr, PyFloat(3)} \cup {PyInt(n) : n \in (-1)..MaxViewCount}

\* ------------------------------------------------------------- session
Conns == <<"plex", "video", "texture">>
ConnSet == {Conns[i] : i \in 1..Len(Conns)}

VARIABLES
    pc,          \* "constructed", "entered", "bodyfailed", "exited", "enterfailed"
    plexconn, plexcursor, kodiconn, kodicursor, artconn, artcursor,
                 \* ItemBase fields: "None", "own" (opened by __enter__) or
                 \* "outer" (taken from a supplied plexdb/kodidb)
    plexdb, kodidb,  \* "None", "outer" (supplied) or "own" (built by __enter__)
    conn,        \* state of each connection opened by __enter__
    rows,        \* the identity table PlexDB reads
    connlog,     \* calls made on connections, oldest first
    inv,         \* the last method invocation: arguments, calls, outcome
    bodyerr,     \* error that ended the body of the with statement
    surfaced,    \* error the with statement delivered to its caller
    nwork,       \* update/commit calls made so far
    chained      \* the last call was an update_playstate whose view_count
                 \* was the one written for the same file by the call before

vars == <<pc, plexconn, plexcursor, kodiconn, kodicursor, artconn, artcursor,
          plexdb, kodidb, conn, rows, connlog, inv, bodyerr, surfaced, nwork,
          chained>>

fields == <<plexconn, plexcursor, kodiconn, kodicursor, artconn, artcursor,
            plexdb, kodidb>>

Invocation(op, args, calls, connops, error) ==
    [op |-> op, args |-> args, calls |-> calls, connops |-> connops,
     outcome |-> IF error = NoError THEN "returned" ELSE "raised",
     error |-> error]

\* ItemBase.__init__(last_sync, plexdb=None, kodidb=None)
Init ==
    /\ pc = "constructed"
    /\ plexdb \in {"None", "outer"}
    /\ kodidb \in {"None", "outer"}
    /\ plexconn = "None"
    /\ plexcursor = plexdb
    /\ kodiconn = "None"
    /\ kodicursor = kodidb
    /\ artconn = kodidb
    /\ artcursor = kodidb
    /\ conn = [c \in ConnSet |-> "unopened"]
    /\ rows \in {[k \in Keys |-> IF k \in present THEN Row(k[1], k[2])
                                 ELSE NotFound] : present \in SUBSET Keys}
    /\ connlog = << >>
    /\ inv = Invocation("__init__", [plexdb |-> plexdb, kodidb |-> kodidb],
                        << >>, << >>, NoError)
    /\ bodyerr = NoError
    /\ surfaced = NoError
    /\ nwork = 0
    /\ chained = FALSE


\* ------------------------------------------------------ connection calls
Step(op, c) == <<op, c>>
\* the field of ItemBase through which a call on connection c is made
Handle(c) ==
    CASE c = "plex" -> plexconn
      [] c = "video" -> kodiconn
      [] c = "texture" -> artconn
\* whose connection a step acts on: __enter__ creates the session's own
\* connections, every other call goes to whatever the field points at
Owner(step) ==
    IF step[1] \in {"kodi_sql", "cursor", "PlexDB", "KodiVideoDB"} THEN "own"
    ELSE Handle(step[2])
\* the record kept in connlog for the i-th attempted step of a plan
Entry(step, ok) ==
    [op |-> step[1], conn |-> step[2], ok |-> ok, owner |-> Owner(step)]
Entries(plan, faulty) ==
    [i \in 1..Len(Attempted(plan, plan, faulty)) |->
        Entry(plan[i], i # FirstFault(plan, faulty))]
ErrorOf(plan, faulty) ==
    IF FirstFault(plan, faulty) = 0 THEN NoError
    ELSE Raised(plan[FirstFault(plan, faulty)][1],
                plan[FirstFault(plan, faulty)][2])
\* TRUE iff the plan's i-th step was attempted and returned
StepDone(plan, faulty, i) ==
    FirstFault(plan, faulty) = 0 \/ i < FirstFault(plan, faulty)
IsConnEntry(e) == e.op \in {"kodi_sql", "cursor", "commit", "checkpoint", "close"}

\* commit_plan that starts with the artwork connection
commit_plan_art_first ==
    << Step("commit", "texture"), Step("commit", "plex"),
       Step("commit", "video"),
       Step("checkpoint", "texture"), Step("checkpoint", "plex"),
       Step("checkpoint", "video") >>

\* ItemBase.commit: three commits, then three WAL checkpoints
commit_plan ==
    << Step("commit", "plex"), Step("commit", "texture"),
       Step("commit", "video"),
       Step("checkpoint", "plex"), Step("checkpoint", "texture"),
       Step("checkpoint", "video") >>

\* exit_plan that closes each connection right after its checkpoint
exit_plan_close_early ==
    << Step("commit", "plex"), Step("commit", "texture"),
       Step("commit", "video"),
       Step("checkpoint", "plex"), Step("close", "plex"),
       Step("checkpoint", "texture"), Step("close", "texture"),
       Step("checkpoint", "video"), Step("close", "video") >>

\* ItemBase.__exit__: self.commit(), then the three closes
exit_plan ==
    commit_plan \o
    << Step("close", "plex"), Step("close", "video"), Step("close", "texture") >>

\* ItemBase.__enter__: open each connection and its cursor, then build the
\* PlexDB and the KodiVideoDB on the cursors
enter_plan ==
    << Step("kodi_sql", "plex"), Step("cursor", "plex"),
       Step("kodi_sql", "video"), Step("cursor", "video"),
       Step("kodi_sql", "texture"), Step("cursor", "texture"),
       Step("PlexDB", "plex"), Step("KodiVideoDB", "video") >>

\* the value a field has after __enter__ ran up to its first raising step:
\* "own" once the step assigning it has returned
Assigned(old, faulty, i) == IF StepDone(enter_plan, faulty, i) THEN "own" ELSE old

\* ItemBase.__enter__
Enter ==
    /\ pc = "constructed"
    /\ \E faulty \in FaultSets(enter_plan) :
        /\ plexconn' = Assigned(plexconn, faulty, 1)
        /\ plexcursor' = Assigned(plexcursor, faulty, 2)
        /\ kodiconn' = Assigned(kodiconn, faulty, 3)
        /\ kodicursor' = Assigned(kodicursor, faulty, 4)
        /\ artconn' = Assigned(artconn, faulty, 5)
        /\ artcursor' = Assigned(artcursor, faulty, 6)
        /\ plexdb' = Assigned(plexdb, faulty, 7)
        /\ kodidb' = Assigned(kodidb, faulty, 8)
        /\ conn' = [c \in ConnSet |->
                      IF \E i \in {1, 3, 5} :
                            /\ enter_plan[i] = Step("kodi_sql", c)
                            /\ StepDone(enter_plan, faulty, i)
                      THEN "open" ELSE conn[c]]
        /\ connlog' = connlog \o SelectSeq(Entries(enter_plan, faulty), IsConnEntry)
        /\ inv' = Invocation("__enter__", << >>, << >>,
                             SelectSeq(Entries(enter_plan, faulty), IsConnEntry),
                             ErrorOf(enter_plan, faulty))
        /\ pc' = IF ErrorOf(enter_plan, faulty) = NoError THEN "entered"
                 ELSE "enterfailed"
        /\ surfaced' = ErrorOf(enter_plan, faulty)
    /\ chained' = FALSE
    /\ UNCHANGED <<rows, bodyerr, nwork>>

\* the connection states after the steps of a plan that returned
AfterPlan(plan, faulty) ==
    [c \in ConnSet |->
        IF \E i \in 1..Len(plan) :
              /\ plan[i] = Step("close", c)
              /\ StepDone(plan, faulty, i)
        THEN "closed" ELSE conn[c]]

\* ItemBase.__exit__(exc_type, exc_val, exc_tb), called by the with statement
\* when its body has returned or raised.  "return self" is a true value, so
\* an error of the body is not re-raised; an error raised by __exit__ itself
\* is what the caller gets.
Exit ==
    /\ pc \in {"entered", "bodyfailed"}
    /\ \E faulty \in FaultSets(exit_plan) :
        /\ conn' = AfterPlan(exit_plan, faulty)
        /\ connlog' = connlog \o Entries(exit_plan, faulty)
        /\ inv' = Invocation("__exit__", [exc |-> bodyerr], << >>,
                             Entries(exit_plan, faulty),
                             ErrorOf(exit_plan, faulty))
        /\ surfaced' = ErrorOf(exit_plan, faulty)
    /\ pc' = "exited"
    /\ chained' = FALSE
    /\ UNCHANGED <<fields, rows, bodyerr, nwork>>

\* what follows a method called by the driver: inside the with body an error
\* ends the body; outside it the error goes straight to the caller
AfterWork(error) ==
    /\ nwork' = nwork + 1
    /\ IF pc = "entered" /\ error # NoError
       THEN pc' = "bodyfailed" /\ bodyerr' = error
       ELSE UNCHANGED <<pc, bodyerr>>
    /\ UNCHANGED <<fields, rows, surfaced>>

CanWork == pc \in {"constructed", "entered"} /\ nwork < MaxWork

\* the steps of commit_plan whose connection field is None
Unbound == {commit_plan[i] : i \in {j \in 1..Len(commit_plan) :
                                       Handle(commit_plan[j][2]) = "None"}}
\* ItemBase.commit: the calls made and the error that ends them.  A call
\* through a field that is None raises AttributeError and reaches no
\* connection.
commit(faulty) ==
    IF /\ FirstFault(commit_plan, faulty \cup Unbound) # 0
       /\ commit_plan[FirstFault(commit_plan, faulty \cup Unbound)] \in Unbound
    THEN [connops |-> [i \in 1..(FirstFault(commit_plan, faulty \cup Unbound) - 1)
                         |-> Entry(commit_plan[i], TRUE)],
          error |-> AttributeError]
    ELSE [connops |-> Entries(commit_plan, faulty),
          error |-> ErrorOf(commit_plan, faulty)]

\* ItemBase.commit called by the driver
Commit ==
    /\ CanWork
    /\ \E faulty \in FaultSets(commit_plan) :
        LET r == commit(faulty)
        IN  /\ inv' = Invocation("commit", << >>, << >>, r.connops, r.error)
            /\ connlog' = connlog \o r.connops
            /\ AfterWork(r.error)
    /\ chained' = FALSE
    /\ UNCHANGED conn

\* update_connops that commits after every write
update_connops_autocommit(calls) ==
    IF WriterCalls(calls) # << >> THEN Entries(commit_plan, {}) ELSE << >>

\* the calls set_fanart, update_userdata and update_playstate make on the
\* connections: none, they only call plexdb and kodidb
update_connops(calls) == << >>

\* RunCalls that catches the error of a call and returns
RunCalls_catching(plan, faulty) ==
    [calls |-> Attempted(plan, [i \in 1..Len(plan) |-> plan[i][1]], faulty),
     error |-> NoError]

\* ----------------------------------------------------- the update methods
CallNames(plan) == [i \in 1..Len(plan) |-> plan[i][1]]
\* the calls of a plan that are made, and the error that ends them
RunCalls(plan, faulty) ==
    [calls |-> Attempted(plan, CallNames(plan), faulty),
     error |-> IF FirstFault(CallNames(plan), faulty) = 0 THEN NoError
               ELSE Raised(plan[FirstFault(CallNames(plan), faulty)][1], "")]
\* a method that finds the collaborator it needs to be None
NoCollaborator(calls) == [calls |-> calls, error |-> AttributeError]

\* ItemBase.update_userdata(xml_element, plex_type); plex_id and userdata are
\* what API(xml_element) yields
update_userdata(plex_id, plex_type, userdata, faulty) ==
    IF plexdb = "None" THEN NoCollaborator(<< >>)
    ELSE IF "item_by_id" \in faulty
    THEN RunCalls(<<ItemById(plex_id, plex_type)>>, faulty)
    ELSE IF /\ kodidb = "None"
            /\ update_userdata_plan(item_by_id(rows, plex_id, plex_type),
                                    userdata, plex_type) # << >>
    THEN NoCollaborator(<<ItemById(plex_id, plex_type)>>)
    ELSE RunCalls(<<ItemById(plex_id, plex_type)>> \o
                  update_userdata_plan(item_by_id(rows, plex_id, plex_type),
                                       userdata, plex_type),
                  faulty)

UpdateUserdata ==
    /\ CanWork
    /\ \E plex_id \in PlexIds, plex_type \in PlexTypes, userdata \in UserDatas,
          faulty \in FaultSets(<<"item_by_id", "set_resume", "update_userrating">>) :
        LET r == update_userdata(plex_id, plex_type, userdata, faulty)
        IN  /\ inv' = Invocation("update_userdata",
                         [plex_id |-> plex_id, plex_type |-> plex_type,
                          userdata |-> userdata, raising |-> faulty],
                         r.calls, update_connops(r.calls), r.error)
            /\ connlog' = connlog \o update_connops(r.calls)
            /\ AfterWork(r.error)
    /\ chained' = FALSE
    /\ UNCHANGED conn

\* update_playstate that resolves the file through the identity table first
update_playstate_resolving(mark_played, view_count, resume, duration, kodi_fileid, lastViewedAt, plex_type, faulty) ==
    IF kodidb = "None" THEN NoCollaborator(<< >>)
    ELSE RunCalls(<<ItemById(kodi_fileid, plex_type),
                    playstate_call(mark_played, view_count, resume, duration,
                                   kodi_fileid, lastViewedAt, plex_type)>>,
                  faulty)

\* ItemBase.update_playstate(mark_played, view_count, resume, duration,
\* kodi_fileid, lastViewedAt, plex_type)
update_playstate(mark_played, view_count, resume, duration, kodi_fileid, lastViewedAt, plex_type, faulty) ==
    IF kodidb = "None" THEN NoCollaborator(<< >>)
    ELSE RunCalls(<<playstate_call(mark_played, view_count, resume, duration,
                                   kodi_fileid, lastViewedAt, plex_type)>>,
                  faulty)

\* event fields offered as input
Resumes == {0, 120}
Durations == {5400}
\* kodi_fileid and plex_type of the event: a file without and one with a row
EventFiles == {<<9, "movie">>, <<61, "show">>}
Timestamps == {PyInt(1)}

\* the event carries, as its prior view_count, the count the invocation
\* before wrote for the same file
Chains(prev, kodi_fileid, view_count) ==
    /\ prev.op = "update_playstate"
    /\ prev.outcome = "returned"
    /\ Len(prev.calls) = 1
    /\ prev.calls[1][2] = kodi_fileid
    /\ prev.calls[1][5] = view_count

UpdatePlaystate ==
    /\ CanWork
    /\ \E mark_played \in BOOLEAN, view_count \in ViewCounts,
          resume \in Resumes, duration \in Durations, file \in EventFiles,
          lastViewedAt \in Timestamps,
          faulty \in FaultSets(<<"set_resume">>) :
        LET kodi_fileid == file[1]
            plex_type == file[2]
            r == update_playstate(mark_played, view_count, resume, duration,
                                  kodi_fileid, lastViewedAt, plex_type, faulty)
        IN  /\ inv' = Invocation("update_playstate",
                         [mark_played |-> mark_played, view_count |-> view_count,
                          resume |-> resume, duration |-> duration,
                          kodi_fileid |-> kodi_fileid,
                          lastViewedAt |-> lastViewedAt, plex_type |-> plex_type,
                          raising |-> faulty],
                         r.calls, update_connops(r.calls), r.error)
            /\ connlog' = connlog \o update_connops(r.calls)
            /\ chained' = Chains(inv, kodi_fileid, view_count)
            /\ AfterWork(r.error)
    /\ UNCHANGED conn

\* ItemBase.set_fanart(artworks, kodi_id, kodi_type)
set_fanart(artworks, kodi_id, kodi_type, faulty) ==
    IF kodidb = "None" THEN NoCollaborator(<< >>)
    ELSE RunCalls(<<ModifyArtwork(artworks, kodi_id, kodi_type)>>, faulty)

ArtSlots == {"poster", "fanart"}

SetFanart ==
    /\ CanWork
    /\ \E artworks \in SUBSET ArtSlots, kodi_id \in {71}, kodi_type \in {"movie"},
          faulty \in FaultSets(<<"modify_artwork">>) :
        LET r == set_fanart(artworks, kodi_id, kodi_type, faulty)
        IN  /\ inv' = Invocation("set_fanart",
                         [artworks |-> artworks, kodi_id |-> kodi_id,
                          kodi_type |-> kodi_type, raising |-> faulty],
                         r.calls, update_connops(r.calls), r.error)
            /\ connlog' = connlog \o update_connops(r.calls)
            /\ AfterWork(r.error)
    /\ chained' = FALSE
    /\ UNCHANGED conn

Next ==
    \/ Enter
    \/ Exit
    \/ Commit
    \/ UpdateUserdata
    \/ UpdatePlaystate
    \/ SetFanart

Spec == Init /\ [][Next]_vars


\* ====================================================== checked properties
IsPrefix(a, b) == Len(a) <= Len(b) /\ a = SubSeq(b, 1, Len(a))

\* an update_userdata step whose item_by_id call was made and returned
LookupReturned(i) ==
    /\ i.op = "update_userdata"
    /\ Len(i.calls) >= 1
    /\ i.error # Raised("item_by_id", "")
LookedUp(i) == ItemById(i.args.plex_id, i.args.plex_type)

\* C1: when item_by_id reports not-found, update_userdata returns normally,
\* its only collaborator call is the lookup (no set_resume, no
\* update_userrating), and the identity table is left as it was.
C1_NotFoundSkips ==
    [][ ( /\ nwork' = nwork + 1
          /\ LookupReturned(inv')
          /\ item_by_id(rows, inv'.args.plex_id, inv'.args.plex_type) = NotFound )
        => ( /\ inv'.outcome = "returned"
             /\ inv'.calls = <<LookedUp(inv')>>
             /\ WriterCalls(inv'.calls) = << >>
             /\ rows' = rows ) ]_vars

C1_Witness ==
    /\ LookupReturned(inv)
    /\ item_by_id(rows, inv.args.plex_id, inv.args.plex_type) = NotFound
    /\ inv.outcome = "returned"
    /\ \E k \in Keys : rows[k] # NotFound

\* the two writes C2 expects for the invocation i, spelled out
ExpectedWrites(i) ==
    << <<"set_resume", rows[<<i.args.plex_id, i.args.plex_type>>].kodi_fileid,
         i.args.userdata.Resume, i.args.userdata.Runtime,
         i.args.userdata.PlayCount, i.args.userdata.LastPlayedDate,
         i.args.plex_type>>,
       <<"update_userrating",
         rows[<<i.args.plex_id, i.args.plex_type>>].kodi_id,
         rows[<<i.args.plex_id, i.args.plex_type>>].kodi_type,
         i.args.userdata.UserRating>> >>

\* C2: for an item with a matching row, the writer calls of update_userdata
\* are at every point a prefix of <<set_resume(kodi_fileid, user data),
\* update_userrating(kodi_id, kodi_type, rating)>>, and when update_userdata
\* returns they are exactly these two, in that order, after the one lookup.
C2_ResumeThenRating ==
    ( /\ LookupReturned(inv)
      /\ rows[<<inv.args.plex_id, inv.args.plex_type>>] # NotFound )
    => ( /\ IsPrefix(WriterCalls(inv.calls), ExpectedWrites(inv))
         /\ inv.outcome = "returned"
            => inv.calls = <<LookedUp(inv)>> \o ExpectedWrites(inv) )

C2_Witness ==
    /\ LookupReturned(inv)
    /\ rows[<<inv.args.plex_id, inv.args.plex_type>>] # NotFound
    /\ inv.args.plex_type = "show"
    /\ inv.outcome = "returned"
    /\ Len(inv.calls) = 3

\* C3 (as claimed): every update_userdata invocation, on every outcome, ends
\* with zero or two writer calls made, never exactly one.
C3_ZeroOrTwoWriterCalls ==
    inv.op = "update_userdata" => Len(WriterCalls(inv.calls)) \in {0, 2}

\* the set_resume calls of an update_playstate invocation
PlaystateInv == inv.op = "update_playstate"
\* update_playstate with a writer to call makes its one set_resume call
PlaystateCalls ==
    /\ kodidb # "None" => Len(inv.calls) = 1
    /\ \A i \in 1..Len(inv.calls) : inv.calls[i][1] = "set_resume"

\* C4: with mark_played set and the prior view_count absent (None),
\* update_playstate passes view_count 1 to set_resume.
C4_AbsentCountBecomesOne ==
    (PlaystateInv /\ inv.args.mark_played /\ inv.args.view_count = PyNone)
    => ( /\ PlaystateCalls
         /\ \A i \in 1..Len(inv.calls) : inv.calls[i][5] = PyInt(1) )

C4_Witness ==
    /\ PlaystateInv /\ inv.args.mark_played /\ inv.args.view_count = PyNone
    /\ Len(inv.calls) = 1
    /\ inv.outcome = "returned"

\* C5: with mark_played set and a known prior count N (an integer N >= 0),
\* update_playstate passes view_count N + 1 to set_resume.
C5_KnownCountPlusOne ==
    ( /\ PlaystateInv /\ inv.args.mark_played
      /\ inv.args.view_count.t = "int" /\ inv.args.view_count.v >= 0 )
    => ( /\ PlaystateCalls
         /\ \A i \in 1..Len(inv.calls) :
               inv.calls[i][5] = [t |-> "int", v |-> inv.args.view_count.v + 1] )

C5_Witness ==
    /\ PlaystateInv /\ inv.args.mark_played
    /\ inv.args.view_count = PyInt(MaxViewCount)
    /\ Len(inv.calls) = 1
    /\ inv.calls[1][5] = PyInt(MaxViewCount + 1)

\* C6: with mark_played set, the resume position update_playstate passes to
\* set_resume is 0, whatever resume the event carries.
C6_PlayedClearsResume ==
    (PlaystateInv /\ inv.args.mark_played)
    => ( /\ PlaystateCalls
         /\ \A i \in 1..Len(inv.calls) : inv.calls[i][3] = 0 )

C6_Witness ==
    /\ PlaystateInv /\ inv.args.mark_played
    /\ inv.args.resume > 0
    /\ Len(inv.calls) = 1

\* C7: with mark_played not set, update_playstate passes the event's resume,
\* duration and view_count (an absent one too) to set_resume as they came.
C7_NotPlayedPassesThrough ==
    (PlaystateInv /\ ~inv.args.mark_played)
    => ( /\ PlaystateCalls
         /\ \A i \in 1..Len(inv.calls) :
               /\ inv.calls[i][3] = inv.args.resume
               /\ inv.calls[i][4] = inv.args.duration
               /\ inv.calls[i][5] = inv.args.view_count )

C7_Witness ==
    /\ PlaystateInv /\ ~inv.args.mark_played
    /\ inv.args.view_count = PyNone
    /\ inv.args.resume > 0
    /\ Len(inv.calls) = 1

\* ------------------------------------------------------------ session exit
ExitInv == inv.op = "__exit__"
Issued(log, op, c) == \E i \in 1..Len(log) : log[i].op = op /\ log[i].conn = c
Failed(log, op) == \E i \in 1..Len(log) : log[i].op = op /\ ~log[i].ok
\* the error of the first call of the log that raised
FirstError(log) ==
    IF \E i \in 1..Len(log) : ~log[i].ok
    THEN LET i == CHOOSE i \in 1..Len(log) :
                     ~log[i].ok /\ \A j \in 1..(i - 1) : log[j].ok
         IN  Raised(log[i].op, log[i].conn)
    ELSE NoError

\* C8 (as claimed): a session exit in which a commit raised has still invoked
\* commit, checkpoint and close on every connection.
C8_ExitCleansUpDespiteCommitError ==
    (ExitInv /\ Failed(inv.connops, "commit"))
    => \A c \in ConnSet :
          /\ Issued(inv.connops, "commit", c)
          /\ Issued(inv.connops, "checkpoint", c)
          /\ Issued(inv.connops, "close", c)

\* C9: a session exit without a storage failure issues nine calls: a commit
\* on each connection, then a checkpoint on each, then a close on each.  No
\* checkpoint comes before a commit, no close before a checkpoint, and in
\* the whole session no commit or checkpoint is issued on a connection after
\* its close.
C9_CommitCheckpointClose ==
    /\ (ExitInv /\ inv.outcome = "returned")
       => ( /\ Len(inv.connops) = 9
            /\ \A c \in ConnSet :
                  /\ \E i \in 1..3 : inv.connops[i].op = "commit"
                                     /\ inv.connops[i].conn = c
                  /\ \E i \in 4..6 : inv.connops[i].op = "checkpoint"
                                     /\ inv.connops[i].conn = c
                  /\ \E i \in 7..9 : inv.connops[i].op = "close"
                                     /\ inv.connops[i].conn = c
            /\ \A c \in ConnSet : conn[c] = "closed" )
    /\ ExitInv
       => \A i, j \in 1..Len(inv.connops) :
             /\ (inv.connops[i].op = "checkpoint" /\ inv.connops[j].op = "commit")
                => j < i
             /\ (inv.connops[i].op = "close" /\ inv.connops[j].op = "checkpoint")
                => j < i
    /\ \A i, j \in 1..Len(connlog) :
          ( /\ i < j
            /\ connlog[i].op = "close"
            /\ connlog[j].conn = connlog[i].conn )
          => connlog[j].op \notin {"commit", "checkpoint"}

C9_Witness ==
    /\ ExitInv /\ inv.outcome = "returned"
    /\ Len(inv.connops) = 9
    /\ Len(connlog) > 15

\* C10 (as claimed): a session exit in which a close raised has still
\* attempted the close of all three connections, and the error the caller
\* gets is the first one that occurred.
C10_AllClosesAttempted ==
    (ExitInv /\ Failed(inv.connops, "close"))
    => ( /\ \A c \in ConnSet : Issued(inv.connops, "close", c)
         /\ surfaced = FirstError(inv.connops) )

\* ---------------------------------------------------------- session scope
\* the with statement is over: __exit__ has returned or raised
ScopeEnded == pc = "exited"
\* the connection got a commit that returned during __exit__
CommittedAtExit(c) ==
    \E i \in 1..Len(inv.connops) :
        /\ inv.connops[i].op = "commit"
        /\ inv.connops[i].conn = c
        /\ inv.connops[i].ok

\* C11 (as claimed): once the scope has ended after an error of the work
\* inside it, every connection opened at entry has been committed and is
\* closed.
C11_FailedWorkStillCommitsAndCloses ==
    (ScopeEnded /\ ExitInv /\ bodyerr # NoError)
    => \A c \in ConnSet : CommittedAtExit(c) /\ conn[c] = "closed"

\* ------------------------------------------------- view counts, event path
\* a prior view_count that is present but is not a count
NonNumeric(view_count) == view_count.t = "str"
NegativeNumber(view_count) == view_count.t \in {"int", "float"} /\ view_count.v < 0
NonInteger(view_count) ==
    view_count.t = "float" /\ view_count.v % 2 = 1
InvalidCount(view_count) ==
    NonNumeric(view_count) \/ NegativeNumber(view_count) \/ NonInteger(view_count)
\* update_playstate did not leave through an error of its own statements
NoConversionError ==
    /\ inv.error.kind # "TypeError"
    /\ inv.error # NoError => Len(inv.calls) = 0 \/ inv.error = Raised("set_resume", "")

\* C12 (as claimed): with mark_played set, a prior view_count that is
\* present but not a valid count (non-numeric, negative, non-integer) is
\* treated as absent: set_resume gets view_count 1.
C12_InvalidCountTreatedAsAbsent ==
    (PlaystateInv /\ inv.args.mark_played /\ InvalidCount(inv.args.view_count))
    => ( /\ PlaystateCalls
         /\ NoConversionError
         /\ \A i \in 1..Len(inv.calls) : inv.calls[i][5] = PyInt(1) )

\* C12 (amended): with mark_played set, a prior view_count on which "+= 1"
\* raises TypeError (a non-numeric value) is treated as absent, set_resume
\* gets view_count 1 and no error of the conversion leaves the method; a
\* negative or non-integer number is a number to python and is passed on
\* incremented by 1.
C12_NonNumericTreatedAsAbsent ==
    (PlaystateInv /\ inv.args.mark_played /\ InvalidCount(inv.args.view_count))
    => ( /\ PlaystateCalls
         /\ NoConversionError
         /\ \A i \in 1..Len(inv.calls) :
               /\ NonNumeric(inv.args.view_count)
                  => inv.calls[i][5] = [t |-> "int", v |-> 1]
               /\ inv.args.view_count.t = "int"
                  => inv.calls[i][5] = [t |-> "int", v |-> inv.args.view_count.v + 1]
               /\ inv.args.view_count.t = "float"
                  => inv.calls[i][5] = [t |-> "float", v |-> inv.args.view_count.v + 2] )

C12_Witness ==
    /\ PlaystateInv /\ inv.args.mark_played
    /\ NonNumeric(inv.args.view_count)
    /\ inv.outcome = "returned"
    /\ Len(inv.calls) = 1
    /\ inv.calls[1][5] = PyInt(1)

\* C13: update_playstate makes no item_by_id and no update_userrating call:
\* its only collaborator call is one set_resume keyed by the kodi_fileid of
\* the event (made whenever the session has a writer), whether or not the
\* identity table has a row for that file.
C13_EventPathSkipsIdentity ==
    PlaystateInv
    => ( /\ PlaystateCalls
         /\ Len(inv.calls) <= 1
         /\ \A i \in 1..Len(inv.calls) :
               /\ inv.calls[i][1] \notin {"item_by_id", "update_userrating"}
               /\ inv.calls[i][2] = inv.args.kodi_fileid )

C13_Witness ==
    /\ PlaystateInv
    /\ Len(inv.calls) = 1
    /\ inv.args.kodi_fileid = Row(1, "show").kodi_fileid
    /\ rows[<<1, "show">>] = NotFound
    /\ plexdb = "None"

\* ------------------------------------------------- supplied plexdb/kodidb
\* the session holds the PlexDB and KodiVideoDB it was constructed with
Supplied == plexdb = "outer" /\ kodidb = "outer"
OpensNothing == \A c \in ConnSet : conn[c] = "unopened"
OuterUntouched == \A i \in 1..Len(connlog) : connlog[i].owner # "outer"

\* C14 (as claimed): a session constructed with supplied instances keeps
\* them over its whole use, scope entry and exit included: it opens no
\* connection of its own and makes no call on a connection of the outer
\* scope.
C14_SuppliedBypassesConnections ==
    [][ Supplied => (Supplied' /\ OpensNothing' /\ OuterUntouched') ]_vars

\* C14 (amended): a session constructed with supplied instances keeps them,
\* opens no connection and makes no call on any connection as long as its
\* scope is not entered (construction, updates, commit); __enter__ opens
\* three connections of its own and replaces the supplied instances; in no
\* case is a call made on a connection of the outer scope.
C14_SuppliedUntilEntered ==
    /\ [](OuterUntouched)
    /\ []((Supplied /\ pc = "constructed") => (OpensNothing /\ connlog = << >>))
    /\ [][ (Supplied /\ pc' = "constructed") => Supplied' ]_vars
    /\ [][ (Supplied /\ pc' = "entered")
           => (plexdb' = "own" /\ kodidb' = "own"
               /\ \A c \in ConnSet : conn'[c] = "open") ]_vars

C14_Witness ==
    /\ Supplied /\ pc = "constructed"
    /\ artconn = "outer"
    /\ inv.op = "commit"
    /\ inv.error = AttributeError
    /\ nwork = 2

\* --------------------------------------------- view counts over a sequence
\* a count: absent, or a number
IsCount(view_count) == view_count.t \in {"None", "int", "float"}
\* twice the number of views a count stands for; an absent count is no view
Twice(view_count) ==
    IF view_count.t = "None" THEN 0
    ELSE IF view_count.t = "int" THEN 2 * view_count.v
    ELSE view_count.v

\* C15: when an update_playstate call carries as its prior view_count the
\* count the call before wrote for the same kodi_fileid, the count it passes
\* to set_resume is not lower than that one: it is one more with mark_played
\* set and the same value without.
C15_ViewCountNeverDrops ==
    [][ ( /\ nwork' = nwork + 1
          /\ chained'
          /\ inv'.op = "update_playstate"
          /\ Len(inv'.calls) = 1
          /\ IsCount(inv.calls[1][5]) )
        => ( /\ Twice(inv'.calls[1][5]) >= Twice(inv.calls[1][5])
             /\ inv'.args.mark_played
                => Twice(inv'.calls[1][5]) = Twice(inv.calls[1][5]) + 2
             /\ ~inv'.args.mark_played
                => inv'.calls[1][5] = inv.calls[1][5] ) ]_vars

C15_Witness ==
    /\ chained
    /\ PlaystateInv /\ inv.args.mark_played
    /\ inv.args.view_count = PyInt(1)
    /\ Len(inv.calls) = 1
    /\ inv.calls[1][5] = PyInt(2)

\* ------------------------------------------------------- commits in a session
IsCommitEntry(e) == e.op \in {"commit", "checkpoint"}
CommitOps(log) == SelectSeq(log, IsCommitEntry)
UpdateOps == {"set_fanart", "update_userdata", "update_playstate"}

\* C16 (as claimed): between session entry and session exit no connection
\* is committed or checkpointed.
C16_NoCommitInsideSession ==
    pc = "entered" => CommitOps(connlog) = << >>

\* C16 (amended): set_fanart, update_userdata and update_playstate make no
\* call on any connection; commits and checkpoints are issued by commit()
\* only, which __exit__ runs and which the driver may also call between
\* entry and exit.
C16_OnlyCommitCommits ==
    /\ [][ (nwork' = nwork + 1 /\ inv'.op \in UpdateOps)
           => (connlog' = connlog /\ inv'.connops = << >>) ]_vars
    /\ [][ CommitOps(connlog') # CommitOps(connlog)
           => inv'.op \in {"commit", "__exit__"} ]_vars

C16_Witness ==
    /\ pc = "entered"
    /\ nwork = MaxWork
    /\ inv.op = "update_userdata"
    /\ Len(inv.calls) = 3
    /\ inv.outcome = "returned"
    /\ CommitOps(connlog) = << >>

\* ------------------------------------------------------ errors of the calls
\* C17: in update_userdata and update_playstate a collaborator call that
\* raises is the last call of the method, and its error leaves the method;
\* the method returns only when no call it made raised.
C17_WriterErrorsPropagate ==
    inv.op \in {"update_userdata", "update_playstate"}
    => \A i \in 1..Len(inv.calls) :
          inv.calls[i][1] \in inv.args.raising
          => ( /\ i = Len(inv.calls)
               /\ inv.outcome = "raised"
               /\ inv.error = [kind |-> "Error", op |-> inv.calls[i][1], conn |-> ""]
               /\ pc # "entered" )

C17_Witness ==
    /\ inv.op = "update_userdata"
    /\ Len(inv.calls) = 3
    /\ "update_userrating" \in inv.args.raising
    /\ inv.outcome = "raised"
    /\ pc = "bodyfailed"

\* C18 (as claimed): when the work inside the scope raised and __exit__
\* returned, the caller of the with statement gets the error of the work.
C18_BodyErrorReachesCaller ==
    (ScopeEnded /\ ExitInv /\ inv.outcome = "returned" /\ bodyerr # NoError)
    => surfaced = bodyerr

\* C19 (as claimed): when __enter__ raises, no connection it opened is
\* still open.
C19_FailedEntryLeaksNothing ==
    pc = "enterfailed" => \A c \in ConnSet : conn[c] # "open"

====
